---- MODULE Spec2Model ----
(***************************************************************************)
(* Model of the Zotero library organizer: the SQLite library store and its *)
(* in-memory mirror (zotero_connector.py), and the taxonomy engine         *)
(* (library_organizer.py): structure synchronisation, path flattening and  *)
(* resolution, classification, and extraction of an object from reply text.*)
(*                                                                         *)
(* Strings are sequences of one-character strings, so that concatenation,  *)
(* split and strip are computed character by character as Python does.     *)
(***************************************************************************)
EXTENDS Integers, Sequences, FiniteSets, TLC

VARIABLES
    pc,                 \* position of the running command
    dbCollections,      \* table collections: set of rows
    dbCollectionItems,  \* table collectionItems: set of rows
    collections,        \* ZoteroLibrary.collections (dict, in insertion order)
    items,              \* ZoteroLibrary.items: item_id -> ZoteroItem
    structure,          \* the TaxonomyNode handed to the command
    faultAt,            \* which create_collection call the store fails (0: none)
    outcome,            \* how the command ended: "none", "ok", "raised"
    reported,           \* what the command reports (the count it prints)
    before,             \* the store and mirror as they were when the command began
    paper_id,           \* the paper a classification is about
    said,               \* the paths the generative service means to name, in order
    reply,              \* the text the generative service returned
    collection_paths,   \* classify_paper_in_collections: the flattened path list
    collection_map,     \* the dict the command accumulated
    kept,               \* classify_paper_in_collections: collection_ids
    text,               \* the text given to the Response Extractor
    result,             \* what the Response Extractor returned
    dbTags,             \* table tags: set of rows
    dbItemTags,         \* table itemTags: set of rows
    op,                 \* the last Library Store operation called, with its arguments
    command,            \* the batch command running: "classify" or "keywords"
    unclassified,       \* the batch's papers, in the order it iterates them
    processed,          \* the papers the batch has handled, each with what it left
    new_keywords,       \* the keywords of the last tag update
    parts,              \* the prose, the tag and the block a reply was made of
    text2,              \* a second reply, for the same block
    result2,            \* what the Response Extractor returned for text2
    file                \* the structure file of the implement command

vars == <<pc, dbCollections, dbCollectionItems, collections, items, structure,
          faultAt, outcome, reported, before, paper_id, said, reply,
          collection_paths, collection_map, kept, text, result,
          dbTags, dbItemTags, op, command, unclassified, processed,
          new_keywords, parts, text2, result2, file>>

storeVars == <<dbCollections, dbCollectionItems>>
mirrorVars == <<collections, items>>
inputVars == <<structure, faultAt>>
classifyVars == <<paper_id, said, reply, kept>>
flattenVars == <<collection_paths, collection_map>>
extractVars == <<text, result>>
tagVars == <<dbTags, dbItemTags>>
storeOpVars == <<op, new_keywords>>
batchVars == <<command, unclassified, processed>>
replyVars == <<parts, text2, result2>>

---------------------------------------------------------------------------
(* Bounds of the model *)

MaxEntries == 3        \* named entries of a TaxonomyNode, all depths together
MaxStoreColls == 2     \* collections in the store when the library is loaded

\* collections in the store, entries of my_proposal.json and lines of the
\* reply, together
SizeBudget == MaxEntries + 2

---------------------------------------------------------------------------
(* Values *)

None == -1             \* Python's None / SQL NULL; identifiers are >= 0

library_id == 1

LibraryIds == {1, 2}   \* the user library and one group library

NameEmpty == <<>>
NameA == <<"a">>
NameB == <<"b">>
Names == {NameEmpty, NameA, NameB}

ItemIds == {1, 2, 3}   \* journal articles with a title: the items load_library keeps
OtherItemIds == {4}    \* an item of the store that _load_items does not keep

Max(S) == CHOOSE x \in S : \A y \in S : y <= x

Range(s) == {s[i] : i \in 1..Len(s)}

---------------------------------------------------------------------------
(* Python dicts: a sequence of [key, val] pairs in insertion order *)

DictKeys(d) == {d[i].key : i \in 1..Len(d)}

DictHas(d, k) == \E i \in 1..Len(d) : d[i].key = k

DictGet(d, k) == d[CHOOSE i \in 1..Len(d) : d[i].key = k].val

\* d[k] = v: an existing key keeps its position
DictSet(d, k, v) ==
    IF DictHas(d, k)
    THEN [i \in 1..Len(d) |-> IF d[i].key = k THEN [key |-> k, val |-> v] ELSE d[i]]
    ELSE Append(d, [key |-> k, val |-> v])

\* d.update(e)
RECURSIVE DictUpdate(_, _)
DictUpdate(d, e) ==
    IF e = <<>> THEN d
    ELSE DictUpdate(DictSet(d, Head(e).key, Head(e).val), Tail(e))

---------------------------------------------------------------------------
(* TaxonomyNode: a dict as json.load builds it, an ordered sequence of       *)
(* entries [name, isdict, entries] whose names differ among siblings;       *)
(* isdict says whether the entry's content is a dict (isinstance(content,   *)
(* dict)), entries is that dict.                                           *)

TopNames(d) == {d[i].name : i \in 1..Len(d)}

RECURSIVE DictsOfSize(_, _)
DictsOfSize(names, n) ==
    IF n = 0 THEN {<<>>}
    ELSE UNION { UNION { UNION {
            { <<[name |-> nm, isdict |-> sub.isdict, entries |-> sub.entries]>> \o rest :
                nm \in names \ TopNames(rest), sub \in subs }
            : rest \in DictsOfSize(names, n - 1 - k) }
            : subs \in {(IF k = 0 THEN {[isdict |-> FALSE, entries |-> <<>>]} ELSE {})
                        \cup {[isdict |-> TRUE, entries |-> e] :
                                e \in DictsOfSize(names, k)}} }
         : k \in 0..(n - 1) }

\* the TaxonomyNodes of up to max entries
TaxonomyNodes(max) == UNION {DictsOfSize(Names, n) : n \in 0..max}

\* the number of named entries, all depths together
RECURSIVE EntryCount(_)
EntryCount(d) ==
    IF d = <<>> THEN 0
    ELSE 1 + EntryCount(Head(d).entries) + EntryCount(Tail(d))

---------------------------------------------------------------------------
(* Text: str.split('\n') and str.strip() *)

Newline == "\n"
Slash == "/"
Whitespace == {" ", "\t", "\n", "\r"}

RECURSIVE SplitFrom(_, _, _)
SplitFrom(s, i, cur) ==
    IF i > Len(s) THEN <<cur>>
    ELSE IF s[i] = Newline THEN <<cur>> \o SplitFrom(s, i + 1, <<>>)
    ELSE SplitFrom(s, i + 1, Append(cur, s[i]))

split_lines(s) == SplitFrom(s, 1, <<>>)

RECURSIVE lstrip(_)
lstrip(s) == IF s # <<>> /\ Head(s) \in Whitespace THEN lstrip(Tail(s)) ELSE s

RECURSIVE rstrip(_)
rstrip(s) ==
    IF s # <<>> /\ s[Len(s)] \in Whitespace THEN rstrip(SubSeq(s, 1, Len(s) - 1)) ELSE s

strip(s) == rstrip(lstrip(s))

\* sub in s at Python index i
OccursAt(s, sub, i) ==
    /\ i + Len(sub) <= Len(s)
    /\ \A k \in 1..Len(sub) : s[i + k] = sub[k]

\* s.find(sub), from Python index i on: the first index, or -1
RECURSIVE FindFrom(_, _, _)
FindFrom(s, sub, i) ==
    IF i + Len(sub) > Len(s) THEN -1
    ELSE IF OccursAt(s, sub, i) THEN i
    ELSE FindFrom(s, sub, i + 1)

find(s, sub) == FindFrom(s, sub, 0)

\* s[a:b] for 0 <= a
Slice(s, a, b) == IF b > Len(s) THEN SubSeq(s, a + 1, Len(s)) ELSE SubSeq(s, a + 1, b)

\* s.split(sep)
RECURSIVE split(_, _)
split(s, sep) ==
    LET i == find(s, sep)
    IN IF i < 0 THEN <<s>>
       ELSE <<Slice(s, 0, i)>> \o split(Slice(s, i + Len(sep), Len(s)), sep)

startswith(s, pre) == OccursAt(s, pre, 0)

---------------------------------------------------------------------------
(* The library store (SQLite) and the mirror ZoteroLibrary keeps of it.      *)
(* A world w is [db, links, tags, itemTags, colls, items, inserts, failAt]:  *)
(*   db     rows [collectionID, collectionName, parentCollectionID,         *)
(*          libraryID] of table collections                                 *)
(*   links  rows [itemID, collectionID, orderIndex] of table collectionItems*)
(*   tags   rows [tagID, name] of table tags                                *)
(*   itemTags  rows [itemID, tagID, type] of table itemTags                 *)
(*   colls  ZoteroLibrary.collections, items  ZoteroLibrary.items           *)
(*   inserts  INSERTs into collections attempted so far, failAt the one the *)
(*          store fails with an sqlite3 error (0: none)                     *)

\* ZoteroCollection(collection_id, name, parent_id), items = []
ZoteroCollection(collection_id, name, parent_id) ==
    [collection_id |-> collection_id, name |-> name, parent_id |-> parent_id,
     items |-> <<>>]

\* the rows of a table in the order a SELECT without ORDER BY scans them
RECURSIVE ScanCollections(_)
ScanCollections(db) ==
    IF db = {} THEN <<>>
    ELSE LET r == CHOOSE x \in db : \A y \in db : x.collectionID <= y.collectionID
         IN <<r>> \o ScanCollections(db \ {r})

LinkBefore(x, y) ==
    \/ x.collectionID < y.collectionID
    \/ x.collectionID = y.collectionID /\ x.itemID < y.itemID
    \/ x.collectionID = y.collectionID /\ x.itemID = y.itemID
                                       /\ x.orderIndex <= y.orderIndex

RECURSIVE ScanCollectionItems(_)
ScanCollectionItems(links) ==
    IF links = {} THEN <<>>
    ELSE LET r == CHOOSE x \in links : \A y \in links : LinkBefore(x, y)
         IN <<r>> \o ScanCollectionItems(links \ {r})

RECURSIVE LoadCollectionRows(_, _)
LoadCollectionRows(colls, rows) ==
    IF rows = <<>> THEN colls
    ELSE LET r == Head(rows)
         IN LoadCollectionRows(
                DictSet(colls, r.collectionID,
                        ZoteroCollection(r.collectionID, r.collectionName,
                                         r.parentCollectionID)),
                Tail(rows))

_load_collections(w) ==
    [w EXCEPT !.colls = LoadCollectionRows(w.colls, ScanCollections(w.db))]

\* the separator of GROUP_CONCAT(t.name, '; ') and of keywords.split('; ')
KeywordSep == <<";", " ">>

RECURSIVE ScanItemTags(_)
ScanItemTags(rows) ==
    IF rows = {} THEN <<>>
    ELSE LET r == CHOOSE x \in rows : \A y \in rows :
                     \/ x.tagID < y.tagID
                     \/ x.tagID = y.tagID /\ x.type <= y.type
         IN <<r>> \o ScanItemTags(rows \ {r})

\* GROUP_CONCAT of one name or more
RECURSIVE GroupConcat(_, _)
GroupConcat(names, sep) ==
    IF Len(names) = 1 THEN names[1]
    ELSE names[1] \o sep \o GroupConcat(Tail(names), sep)

\* the keywords column of an item (itemTags joined with tags), and the list
\* _load_items makes of it: keywords.split('; ') if keywords else []
ItemKeywords(w, item_id) ==
    LET rows == ScanItemTags({r \in w.itemTags :
                                r.itemID = item_id
                                /\ \E t \in w.tags : t.tagID = r.tagID})
        names == [i \in 1..Len(rows) |->
                    (CHOOSE t \in w.tags : t.tagID = rows[i].tagID).name]
        keywords == IF names = <<>> THEN <<>> ELSE GroupConcat(names, KeywordSep)
    IN IF keywords # <<>> THEN split(keywords, KeywordSep) ELSE <<>>

\* the journal articles with a title, each with its keywords and
\* collections = []
_load_items(w) ==
    [w EXCEPT !.items = [i \in ItemIds |->
                           [keywords |-> ItemKeywords(w, i), collections |-> <<>>]]]

RECURSIVE LoadLinkRows(_, _)
LoadLinkRows(w, rows) ==
    IF rows = <<>> THEN w
    ELSE LET r == Head(rows)
         IN IF DictHas(w.colls, r.collectionID) /\ r.itemID \in DOMAIN w.items
            THEN LET c == DictGet(w.colls, r.collectionID)
                 IN LoadLinkRows(
                        [w EXCEPT
                           !.colls = DictSet(w.colls, r.collectionID,
                                             [c EXCEPT !.items = Append(c.items, r.itemID)]),
                           !.items[r.itemID].collections =
                               Append(w.items[r.itemID].collections, c.name)],
                        Tail(rows))
            ELSE LoadLinkRows(w, Tail(rows))

_load_collection_items(w) == LoadLinkRows(w, ScanCollectionItems(w.links))

load_library(w) == _load_collection_items(_load_items(_load_collections(w)))

\* cursor.lastrowid of an INSERT into a table whose key is the rowid
lastrowid(db) == IF db = {} THEN 1 ELSE Max({r.collectionID : r \in db}) + 1

\* create_collection with the parent dropped: every collection is top-level
create_collection_no_parent(w, name, parent_id) ==
    LET n == w.inserts + 1
        collection_id == lastrowid(w.db)
    IN IF n = w.failAt
       THEN [w |-> [w EXCEPT !.inserts = n], raised |-> TRUE, collection_id |-> None]
       ELSE [w |-> [w EXCEPT
                      !.inserts = n,
                      !.db = w.db \cup {[collectionID |-> collection_id,
                                         collectionName |-> name,
                                         parentCollectionID |-> None,
                                         libraryID |-> library_id]},
                      !.colls = DictSet(w.colls, collection_id,
                                        ZoteroCollection(collection_id, name, None))],
             raised |-> FALSE,
             collection_id |-> collection_id]

\* create_collection whose failed INSERT is not rolled back: the row stays
create_collection_no_rollback(w, name, parent_id) ==
    LET n == w.inserts + 1
        collection_id == lastrowid(w.db)
        row == [collectionID |-> collection_id, collectionName |-> name,
                parentCollectionID |-> parent_id, libraryID |-> library_id]
    IN IF n = w.failAt
       THEN [w |-> [w EXCEPT !.inserts = n, !.db = w.db \cup {row}],
             raised |-> TRUE, collection_id |-> None]
       ELSE [w |-> [w EXCEPT
                      !.inserts = n,
                      !.db = w.db \cup {row},
                      !.colls = DictSet(w.colls, collection_id,
                                        ZoteroCollection(collection_id, name, parent_id))],
             raised |-> FALSE,
             collection_id |-> collection_id]

\* create_collection: [w, raised, collection_id]; a failed INSERT leaves
\* store and mirror as they were and raises
create_collection(w, name, parent_id) ==
    LET n == w.inserts + 1
        collection_id == lastrowid(w.db)
    IN IF n = w.failAt
       THEN [w |-> [w EXCEPT !.inserts = n], raised |-> TRUE, collection_id |-> None]
       ELSE [w |-> [w EXCEPT
                      !.inserts = n,
                      !.db = w.db \cup {[collectionID |-> collection_id,
                                         collectionName |-> name,
                                         parentCollectionID |-> parent_id,
                                         libraryID |-> library_id]},
                      !.colls = DictSet(w.colls, collection_id,
                                        ZoteroCollection(collection_id, name, parent_id))],
             raised |-> FALSE,
             collection_id |-> collection_id]

delete_all_collections(w) ==
    [w EXCEPT
       !.links = {},
       !.db = {r \in w.db : r.libraryID # library_id},
       !.colls = <<>>,
       !.items = [i \in DOMAIN w.items |-> [w.items[i] EXCEPT !.collections = <<>>]]]

\* create_collection_structure, the loop from entry i on with the
\* collection_map accumulated so far: [w, raised, collection_map]
RECURSIVE CreateFrom(_, _, _, _, _)
CreateFrom(w, struct, parent_id, i, cmap) ==
    IF i > Len(struct) THEN [w |-> w, raised |-> FALSE, collection_map |-> cmap]
    ELSE LET e == struct[i]
             c == create_collection(w, e.name, parent_id)
         IN IF c.raised
            THEN [w |-> c.w, raised |-> TRUE, collection_map |-> cmap]
            ELSE LET cmap1 == DictSet(cmap, e.name, c.collection_id)
                     sub == IF e.isdict
                            THEN CreateFrom(c.w, e.entries, c.collection_id, 1, <<>>)
                            ELSE [w |-> c.w, raised |-> FALSE, collection_map |-> <<>>]
                 IN IF sub.raised
                    THEN [w |-> sub.w, raised |-> TRUE, collection_map |-> cmap1]
                    ELSE CreateFrom(sub.w, struct, parent_id, i + 1,
                                    DictUpdate(cmap1, sub.collection_map))

create_collection_structure(w, struct, parent_id) ==
    CreateFrom(w, struct, parent_id, 1, <<>>)

---------------------------------------------------------------------------
(* update_item_collections: [w, raised]. The links of the item are replaced  *)
(* by one row per identifier that is in the mirror, numbered by its place   *)
(* in the list given; the item's collections become the names of those.     *)

\* update_item_collections without the DELETE: the old links stay
update_item_collections_no_delete(w, item_id, collection_ids) ==
    IF item_id \notin DOMAIN w.items
    THEN [w |-> w, raised |-> TRUE]
    ELSE LET known == SelectSeq(collection_ids, LAMBDA cid : DictHas(w.colls, cid))
         IN [w |-> [w EXCEPT
                      !.links = w.links
                                \cup {[itemID |-> item_id,
                                       collectionID |-> collection_ids[i],
                                       orderIndex |-> i - 1] :
                                        i \in {j \in 1..Len(collection_ids) :
                                                 DictHas(w.colls, collection_ids[j])}},
                      !.items[item_id].collections =
                          [i \in 1..Len(known) |-> DictGet(w.colls, known[i]).name]],
             raised |-> FALSE]

update_item_collections(w, item_id, collection_ids) ==
    IF item_id \notin DOMAIN w.items
    THEN [w |-> w, raised |-> TRUE]
    ELSE LET known == SelectSeq(collection_ids, LAMBDA cid : DictHas(w.colls, cid))
         IN [w |-> [w EXCEPT
                      !.links = {r \in w.links : r.itemID # item_id}
                                \cup {[itemID |-> item_id,
                                       collectionID |-> collection_ids[i],
                                       orderIndex |-> i - 1] :
                                        i \in {j \in 1..Len(collection_ids) :
                                                 DictHas(w.colls, collection_ids[j])}},
                      !.items[item_id].collections =
                          [i \in 1..Len(known) |-> DictGet(w.colls, known[i]).name]],
             raised |-> FALSE]

---------------------------------------------------------------------------
(* delete_collection and move_collection: [w, raised]. An exception raised  *)
(* inside a with self.connect() block rolls the block's statements back;    *)
(* what the mirror had been changed to by then stays.                       *)

\* del d[k]
DictDel(d, k) == SelectSeq(d, LAMBDA e : e.key # k)

\* list.remove(x): the list without the first x, or ValueError
ListRemove(l, x) ==
    IF \E i \in 1..Len(l) : l[i] = x
    THEN LET i == CHOOSE i \in 1..Len(l) : l[i] = x /\ \A j \in 1..(i - 1) : l[j] # x
         IN [raised |-> FALSE, list |-> SubSeq(l, 1, i - 1) \o SubSeq(l, i + 1, Len(l))]
    ELSE [raised |-> TRUE, list |-> l]

\* for item in collection.items: item.collections.remove(collection.name)
RECURSIVE RemoveFromItems(_, _, _)
RemoveFromItems(its, members, name) ==
    IF members = <<>> THEN [raised |-> FALSE, items |-> its]
    ELSE LET r == ListRemove(its[Head(members)].collections, name)
         IN IF r.raised THEN [raised |-> TRUE, items |-> its]
            ELSE RemoveFromItems([its EXCEPT ![Head(members)].collections = r.list],
                                 Tail(members), name)

delete_collection(w, collection_id) ==
    IF ~DictHas(w.colls, collection_id)
    THEN [w |-> w, raised |-> TRUE]
    ELSE LET collection == DictGet(w.colls, collection_id)
             r == RemoveFromItems(w.items, collection.items, collection.name)
         IN IF r.raised
            THEN [w |-> [w EXCEPT !.items = r.items], raised |-> TRUE]
            ELSE [w |-> [w EXCEPT
                           !.links = {l \in w.links : l.collectionID # collection_id},
                           !.db = {c \in w.db : c.collectionID # collection_id},
                           !.items = r.items,
                           !.colls = DictDel(w.colls, collection_id)],
                  raised |-> FALSE]

\* the truth value of an Optional[int]
Truthy(x) == x # None /\ x # 0

move_collection(w, collection_id, new_parent_id) ==
    IF ~DictHas(w.colls, collection_id)
    THEN [w |-> w, raised |-> TRUE]
    ELSE IF Truthy(new_parent_id) /\ ~DictHas(w.colls, new_parent_id)
    THEN [w |-> w, raised |-> TRUE]
    ELSE LET collection == DictGet(w.colls, collection_id)
         IN [w |-> [w EXCEPT
                      !.db = {IF c.collectionID = collection_id
                              THEN [c EXCEPT !.parentCollectionID = new_parent_id]
                              ELSE c : c \in w.db},
                      !.colls = DictSet(w.colls, collection_id,
                                        [collection EXCEPT !.parent_id = new_parent_id])],
             raised |-> FALSE]

---------------------------------------------------------------------------
(* update_item_keywords and improve_paper_keywords: the set of [w, raised]  *)
(* the call may end in, one for each order list(set(...)) may give.         *)

\* the lists that hold each element of S once
Orderings(S) ==
    {f \in [1..Cardinality(S) -> S] :
        \A i, j \in 1..Cardinality(S) : i # j => f[i] # f[j]}

\* cursor.lastrowid of an INSERT into tags
lastTagRowid(tags) == IF tags = {} THEN 1 ELSE Max({t.tagID : t \in tags}) + 1

\* for keyword in combined_keywords: the tag of that name (fetchone: the
\* first row) or a new one, and an itemTags row for it
RECURSIVE AddKeywords(_, _, _)
AddKeywords(w, item_id, kws) ==
    IF kws = <<>> THEN w
    ELSE LET keyword == Head(kws)
             found == {t.tagID : t \in {t \in w.tags : t.name = keyword}}
             tag_id == IF found = {}
                       THEN lastTagRowid(w.tags)
                       ELSE CHOOSE x \in found : \A y \in found : x <= y
         IN AddKeywords(
                [w EXCEPT
                   !.tags = IF found = {}
                            THEN w.tags \cup {[tagID |-> tag_id, name |-> keyword]}
                            ELSE w.tags,
                   !.itemTags = w.itemTags
                                \cup {[itemID |-> item_id, tagID |-> tag_id, type |-> 0]}],
                item_id, Tail(kws))

\* update_item_keywords that replaces the keywords by the new ones
update_item_keywords_replace(w, item_id, new) ==
    IF item_id \notin DOMAIN w.items
    THEN {[w |-> w, raised |-> TRUE]}
    ELSE { [w |-> [AddKeywords([w EXCEPT !.itemTags = {r \in w.itemTags : r.itemID # item_id}],
                               item_id, combined_keywords)
                     EXCEPT !.items[item_id].keywords = combined_keywords],
            raised |-> FALSE] :
             combined_keywords \in Orderings(Range(new)) }

update_item_keywords(w, item_id, new) ==
    IF item_id \notin DOMAIN w.items
    THEN {[w |-> w, raised |-> TRUE]}
    ELSE { [w |-> [AddKeywords([w EXCEPT !.itemTags = {r \in w.itemTags : r.itemID # item_id}],
                               item_id, combined_keywords)
                     EXCEPT !.items[item_id].keywords = combined_keywords],
            raised |-> FALSE] :
             combined_keywords \in
                 Orderings(Range(w.items[item_id].keywords) \cup Range(new)) }

---------------------------------------------------------------------------
(* classify_paper_in_collections *)

\* the loop over library.collections.values() for one path, stopping at the
\* first collection that bears the name
RECURSIVE ResolveFirst(_, _, _, _, _)
ResolveFirst(cmap, colls, name, full_path, j) ==
    IF j > Len(colls) THEN cmap
    ELSE IF colls[j].val.name = name
         THEN DictSet(cmap, full_path, colls[j].val.collection_id)
         ELSE ResolveFirst(cmap, colls, name, full_path, j + 1)

\* the loop over library.collections.values() for one path, comparing the
\* collection's name with the whole path
RECURSIVE ResolveByPath(_, _, _, _, _)
ResolveByPath(cmap, colls, name, full_path, j) ==
    IF j > Len(colls) THEN cmap
    ELSE ResolveByPath(IF colls[j].val.name = full_path
                       THEN DictSet(cmap, full_path, colls[j].val.collection_id)
                       ELSE cmap,
                       colls, name, full_path, j + 1)

\* the loop over library.collections.values() for one path: every collection
\* that bears the name is assigned, one after the other
RECURSIVE ResolveFrom(_, _, _, _, _)
ResolveFrom(cmap, colls, name, full_path, j) ==
    IF j > Len(colls) THEN cmap
    ELSE ResolveFrom(IF colls[j].val.name = name
                     THEN DictSet(cmap, full_path, colls[j].val.collection_id)
                     ELSE cmap,
                     colls, name, full_path, j + 1)

\* f"{prefix}/{name}" if prefix else name
FullPath(prefix, name) ==
    IF prefix # <<>> THEN prefix \o <<Slash>> \o name ELSE name

\* flatten_collections, the loop from entry i on; acc is [paths, cmap], the
\* collection_paths and collection_map built so far
RECURSIVE FlattenFrom(_, _, _, _, _)
FlattenFrom(acc, colls, struct, prefix, i) ==
    IF i > Len(struct) THEN acc
    ELSE LET e == struct[i]
             full_path == FullPath(prefix, e.name)
             acc1 == [paths |-> Append(acc.paths, full_path),
                      cmap |-> ResolveFrom(acc.cmap, colls, e.name, full_path, 1)]
             acc2 == IF e.isdict
                     THEN FlattenFrom(acc1, colls, e.entries, full_path, 1)
                     ELSE acc1
         IN FlattenFrom(acc2, colls, struct, prefix, i + 1)

flatten_collections(colls, struct) ==
    FlattenFrom([paths |-> <<>>, cmap |-> <<>>], colls, struct, <<>>, 1)

\* the lines of the reply, trimmed, blank ones dropped
ReplyLines(txt) ==
    LET ls == split_lines(txt)
        stripped == [i \in 1..Len(ls) |-> strip(ls[i])]
    IN SelectSeq(stripped, LAMBDA l : l # <<>>)

\* classify_paper_in_collections without the test of collection_ids: the
\* update is made with an empty list too
classify_paper_always_updates(w, pid, struct, txt) ==
    LET f == flatten_collections(w.colls, struct)
        lines == ReplyLines(txt)
        named == SelectSeq(lines, LAMBDA c : DictHas(f.cmap, c))
        collection_ids == [i \in 1..Len(named) |-> DictGet(f.cmap, named[i])]
        u == update_item_collections(w, pid, collection_ids)
    IN [w |-> u.w, raised |-> u.raised, collection_paths |-> f.paths,
        collection_map |-> f.cmap, collection_ids |-> collection_ids]

\* classify_paper_in_collections for a paper of library.items, with struct the
\* content of my_proposal.json and txt the reply:
\* [w, raised, collection_paths, collection_map, collection_ids]
classify_paper_in_collections(w, pid, struct, txt) ==
    LET f == flatten_collections(w.colls, struct)
        lines == ReplyLines(txt)
        named == SelectSeq(lines, LAMBDA c : DictHas(f.cmap, c))
        collection_ids == [i \in 1..Len(named) |-> DictGet(f.cmap, named[i])]
        u == IF collection_ids # <<>>
             THEN update_item_collections(w, pid, collection_ids)
             ELSE [w |-> w, raised |-> FALSE]
    IN [w |-> u.w, raised |-> u.raised, collection_paths |-> f.paths,
        collection_map |-> f.cmap, collection_ids |-> collection_ids]

---------------------------------------------------------------------------
(* The stores a run may find: up to MaxStoreColls collections, numbered from *)
(* 1, each with a name, a parent among the earlier ones or none, and a      *)
(* library; item 1 is linked to any of them, the item the mirror does not   *)
(* keep to the first or to none.                                           *)

StoreNames == {NameA, NameB}

StoreRowSets(m) ==
    { {[collectionID |-> i, collectionName |-> nm[i],
        parentCollectionID |-> par[i], libraryID |-> lib[i]] : i \in 1..m} :
        nm \in [1..m -> StoreNames],
        par \in {f \in [1..m -> {None} \cup 1..m] :
                    \A i \in 1..m : f[i] = None \/ f[i] = i - 1},
        lib \in [1..m -> LibraryIds] }

StoreLinkSets(m) ==
    { {[itemID |-> 1, collectionID |-> c, orderIndex |-> 0] : c \in S}
      \cup {[itemID |-> o, collectionID |-> 1, orderIndex |-> 0] : o \in T} :
        S \in SUBSET (1..m),
        T \in IF m = 0 THEN {{}} ELSE SUBSET OtherItemIds }

World ==
    [db |-> dbCollections, links |-> dbCollectionItems, tags |-> dbTags,
     itemTags |-> dbItemTags, colls |-> collections,
     items |-> items, inserts |-> 0, failAt |-> faultAt]

\* the store and the mirror of a world, as a command finds or leaves them
Snapshot(w) ==
    [db |-> w.db, links |-> w.links, tags |-> w.tags, itemTags |-> w.itemTags,
     colls |-> w.colls, items |-> w.items]

NoSnapshot ==
    [db |-> {}, links |-> {}, tags |-> {}, itemTags |-> {}, colls |-> <<>>,
     items |-> <<>>]

Idle ==
    /\ paper_id = 0
    /\ said = <<>>
    /\ reply = <<>>
    /\ collection_paths = <<>>
    /\ kept = <<>>
    /\ text = <<>>
    /\ result = [kind |-> "none", val |-> <<>>]

NoOp == [name |-> "none", n |-> 0, unknown |-> FALSE, raised |-> FALSE]

NoParts ==
    [pre |-> <<>>, post |-> <<>>, fenced |-> FALSE, closed |-> FALSE, tag |-> <<>>,
     kind |-> "none", tree |-> <<>>]

NoFile == [exists |-> FALSE, kind |-> "none", content |-> <<>>]

\* nothing of the store operations, the batches, the fenced replies or the
\* structure file is in play
IdleLater ==
    /\ op = NoOp
    /\ new_keywords = <<>>
    /\ command = "none"
    /\ unclassified = <<>>
    /\ processed = <<>>
    /\ parts = NoParts
    /\ text2 = <<>>
    /\ result2 = [kind |-> "none", val |-> <<>>]
    /\ file = NoFile

NoTags ==
    /\ dbTags = {}
    /\ dbItemTags = {}

---------------------------------------------------------------------------
(* Synchronisation: main() builds the library and loads it, and the         *)
(* implement command runs implement_collection_structure, which deletes     *)
(* every collection and then creates the structure.                        *)

InitSync ==
    /\ pc = "init"
    /\ \E m \in 0..MaxStoreColls :
        /\ dbCollections \in StoreRowSets(m)
        /\ dbCollectionItems \in StoreLinkSets(m)
        /\ structure \in UNION {DictsOfSize(Names, n) : n \in 0..(MaxEntries - m)}
    /\ collections = <<>>
    /\ items = <<>>
    /\ faultAt \in 0..EntryCount(structure)
    /\ outcome = "none"
    /\ reported = 0
    /\ collection_map = <<>>
    /\ before = NoSnapshot
    /\ Idle
    /\ IdleLater
    /\ NoTags

\* main(): library.load_library()
LoadLibrary ==
    /\ pc = "init"
    /\ \E w \in {load_library(World)} :
          /\ collections' = w.colls
          /\ items' = w.items
          /\ before' = Snapshot(w)
    /\ pc' = "loaded"
    /\ UNCHANGED <<storeVars, inputVars, outcome, reported, classifyVars,
                   flattenVars, extractVars, tagVars, storeOpVars, batchVars,
                   replyVars, file>>

\* implement_collection_structure: library.delete_all_collections()
DeleteAllCollections ==
    /\ pc = "loaded"
    /\ \E w \in {delete_all_collections(World)} :
          /\ dbCollections' = w.db
          /\ dbCollectionItems' = w.links
          /\ collections' = w.colls
          /\ items' = w.items
    /\ pc' = "deleted"
    /\ UNCHANGED <<inputVars, outcome, reported, before, classifyVars,
                   flattenVars, extractVars, tagVars, storeOpVars, batchVars,
                   replyVars, file>>

\* implement_collection_structure: library.create_collection_structure(structure),
\* the count it prints, and the re-raise of a fault
CreateCollectionStructure ==
    /\ pc = "deleted"
    /\ \E r \in {create_collection_structure(World, structure, None)} :
          /\ dbCollections' = r.w.db
          /\ dbCollectionItems' = r.w.links
          /\ collections' = r.w.colls
          /\ items' = r.w.items
          /\ outcome' = IF r.raised THEN "raised" ELSE "ok"
          /\ collection_map' = IF r.raised THEN <<>> ELSE r.collection_map
          /\ reported' = IF r.raised THEN 0 ELSE Len(r.collection_map)
    /\ pc' = "done"
    /\ UNCHANGED <<inputVars, before, classifyVars, collection_paths,
                   extractVars, tagVars, storeOpVars, batchVars, replyVars, file>>

NextSync == LoadLibrary \/ DeleteAllCollections \/ CreateCollectionStructure

SpecSync == InitSync /\ [][NextSync]_vars

---------------------------------------------------------------------------
(* Properties of synchronisation (SpecSync) *)

\* The entries of a TaxonomyNode in depth-first pre-order, each with its name
\* and the position in this list of its enclosing entry (0: top level);
\* the entries of d are numbered from base + 1.
RECURSIVE PreOrderFrom(_, _, _)
PreOrderFrom(d, parentIdx, base) ==
    IF d = <<>> THEN <<>>
    ELSE LET sub == PreOrderFrom(Head(d).entries, base + 1, base + 1)
         IN <<[name |-> Head(d).name, parent |-> parentIdx]>> \o sub
            \o PreOrderFrom(Tail(d), parentIdx, base + 1 + Len(sub))

PreOrder(d) == PreOrderFrom(d, 0, 0)

\* the user library's rows of table collections, by identifier
UserRows == ScanCollections({r \in dbCollections : r.libraryID = library_id})

\* rows[1..n] are the first n entries of po: same names, and each row's parent
\* is the row of its entry's enclosing entry
RowsMatch(rows, po, n) ==
    /\ Len(rows) = n
    /\ n <= Len(po)
    /\ \A i, j \in 1..n : i # j => rows[i].collectionID # rows[j].collectionID
    /\ \A i \in 1..n :
        /\ rows[i].collectionName = po[i].name
        /\ rows[i].parentCollectionID =
              IF po[i].parent = 0 THEN None ELSE rows[po[i].parent].collectionID

\* the mirror's collections are the store's, with the same names and parents
MirrorCollectionsAgree ==
    {[collectionID |-> c.val.collection_id, collectionName |-> c.val.name,
      parentCollectionID |-> c.val.parent_id] : c \in Range(collections)}
    = {[collectionID |-> r.collectionID, collectionName |-> r.collectionName,
        parentCollectionID |-> r.parentCollectionID] : r \in dbCollections}

\* C1: synchronising an empty store with a TaxonomyNode and enumerating the
\* store's collections gives one collection per named entry, with the entry's
\* name, without parent for a top-level entry and with the collection of the
\* enclosing entry as parent for a nested one.
C1_RoundTrip ==
    (pc = "done" /\ outcome = "ok" /\ before.db = {})
        => RowsMatch(ScanCollections(dbCollections), PreOrder(structure),
                     EntryCount(structure))

\* C1 witness: an empty store synchronised with one top-level entry that
\* holds two nested entries (the shape of {"A": {"B": {}, "C": {}}}).
C1_Witness ==
    /\ pc = "done" /\ outcome = "ok" /\ before.db = {}
    /\ Len(structure) = 1 /\ Len(structure[1].entries) = 2
    /\ Cardinality(dbCollections) = 3
    /\ \E p \in dbCollections :
        /\ p.parentCollectionID = None
        /\ \A r \in dbCollections \ {p} : r.parentCollectionID = p.collectionID

\* C2 (as claimed): once delete_all_collections has completed the store holds
\* no collection and no membership link, the mirror holds no collection, every
\* paper's membership list is empty, and mirror and store agree.
C2_DeletesEverything ==
    pc = "deleted" =>
        /\ dbCollections = {}
        /\ dbCollectionItems = {}
        /\ collections = <<>>
        /\ \A i \in DOMAIN items : items[i].collections = <<>>
        /\ MirrorCollectionsAgree

\* C9: a store fault at the k-th create_collection reaches the caller; the
\* store then holds no membership link, the user library holds exactly the
\* k-1 collections created before the fault, which are the first k-1 entries
\* in depth-first order with their parent links, and nothing else was put
\* back or created: the other rows are the ones the deletion left.
C9_FaultLeavesPrefix ==
    (pc = "done" /\ faultAt > 0) =>
        /\ outcome = "raised"
        /\ dbCollectionItems = {}
        /\ RowsMatch(UserRows, PreOrder(structure), faultAt - 1)
        /\ {r \in dbCollections : r.libraryID # library_id}
             = {r \in before.db : r.libraryID # library_id}

\* C9 witness: the library held a collection of the user library and a
\* membership link, the fault came at the second creation or later, and the
\* collection created before it is in the store.
C9_Witness ==
    /\ pc = "done" /\ outcome = "raised" /\ faultAt >= 2
    /\ \E r \in before.db : r.libraryID = library_id
    /\ before.links # {}
    /\ Len(UserRows) = faultAt - 1

\* C10 (as claimed): the count a successful synchronisation reports is the
\* number of collections it created in the store.
C10_CountIsCreated ==
    (pc = "done" /\ outcome = "ok") =>
        reported = Cardinality({r \in dbCollections : r.libraryID = library_id})

---------------------------------------------------------------------------
(* The Taxonomy Flattener alone: flatten_collections applied to a structure  *)
(* and the collections of a loaded library.                                *)

InitFlatten ==
    /\ InitSync
    /\ faultAt = 0

FlattenCollections ==
    /\ pc = "loaded"
    /\ \E f \in {flatten_collections(collections, structure)} :
          /\ collection_paths' = f.paths
          /\ collection_map' = f.cmap
    /\ pc' = "flattened"
    /\ UNCHANGED <<storeVars, mirrorVars, inputVars, outcome, reported, before,
                   classifyVars, extractVars, tagVars, storeOpVars, batchVars,
                   replyVars, file>>

NextFlatten == LoadLibrary \/ FlattenCollections

SpecFlatten == InitFlatten /\ [][NextFlatten]_vars

---------------------------------------------------------------------------
(* Properties of the Taxonomy Flattener (SpecFlatten) *)

\* '/'.join(names)
RECURSIVE JoinSlash(_)
JoinSlash(names) ==
    IF names = <<>> THEN <<>>
    ELSE IF Len(names) = 1 THEN names[1]
    ELSE names[1] \o <<Slash>> \o JoinSlash(Tail(names))

\* the entries of a TaxonomyNode in depth-first pre-order (an entry, then the
\* whole subtree under it, then its next sibling), each as the list of names
\* from the root to it
RECURSIVE PreOrderNames(_, _)
PreOrderNames(d, above) ==
    IF d = <<>> THEN <<>>
    ELSE <<Append(above, Head(d).name)>>
         \o PreOrderNames(Head(d).entries, Append(above, Head(d).name))
         \o PreOrderNames(Tail(d), above)

HasSlash(name) == \E i \in 1..Len(name) : name[i] = Slash

NoSlashNames(d) == \A e \in Range(PreOrder(d)) : ~HasSlash(e.name)

AllNonEmptyNames(d) == \A e \in Range(PreOrder(d)) : e.name # <<>>

Distinct(seq) == \A i, j \in 1..Len(seq) : i # j => seq[i] # seq[j]

\* C6 (as claimed): for a TaxonomyNode whose names hold no '/', with n named
\* entries, flatten_collections gives n path strings, pairwise distinct.
C6_DistinctPaths ==
    (pc = "flattened" /\ NoSlashNames(structure)) =>
        /\ Len(collection_paths) = EntryCount(structure)
        /\ Distinct(collection_paths)

\* C7 (as claimed): the path list is the depth-first pre-order list of the
\* entries, intermediate ones included, each path being the '/'-join of the
\* names from the root to the entry.
C7_PreOrderJoin ==
    pc = "flattened" =>
        LET po == PreOrderNames(structure, <<>>)
        IN /\ Len(collection_paths) = Len(po)
           /\ \A i \in 1..Len(po) : collection_paths[i] = JoinSlash(po[i])

\* the places in the mirror, in iteration order, of the collections named name
Bearers(name) == {j \in 1..Len(collections) : collections[j].val.name = name}

Min(S) == CHOOSE x \in S : \A y \in S : x <= y

\* C8 (as claimed): when several collections bear a path's final name, the
\* path is mapped to the identifier of the first of them in iteration order.
C8_FirstMatch ==
    pc = "flattened" =>
        \A i \in 1..Len(collection_paths) :
            LET name == PreOrder(structure)[i].name
            IN Cardinality(Bearers(name)) >= 2 =>
                /\ DictHas(collection_map, collection_paths[i])
                /\ DictGet(collection_map, collection_paths[i])
                     = collections[Min(Bearers(name))].val.collection_id

\* C8 (amended): when several collections bear a path's final name, the path
\* is mapped to the identifier of the last of them in iteration order, and to
\* no earlier one.
C8_LastMatch ==
    pc = "flattened" =>
        \A i \in 1..Len(collection_paths) :
            LET name == PreOrder(structure)[i].name
            IN Cardinality(Bearers(name)) >= 2 =>
                /\ DictHas(collection_map, collection_paths[i])
                /\ DictGet(collection_map, collection_paths[i])
                     = collections[Max(Bearers(name))].val.collection_id

\* C8 witness: two collections bear the name of a flattened entry, and its
\* path is mapped.
C8_Witness ==
    /\ pc = "flattened"
    /\ \E i \in 1..Len(collection_paths) :
        /\ Cardinality(Bearers(PreOrder(structure)[i].name)) >= 2
        /\ DictHas(collection_map, collection_paths[i])

\* the part of a path after its last '/'
RECURSIVE LastComponent(_)
LastComponent(path) ==
    IF ~HasSlash(path) THEN path
    ELSE LastComponent(Tail(path))

\* C14: a flattened path is a key of the path map exactly when some
\* collection of the store, whatever its parent, has the path's final name
\* component as name; the identifier it is mapped to is that of a collection
\* of the store with this name; paths with the same final component are
\* mapped to the same identifier; and the map has no other key.
C14_MapByFinalComponent ==
    pc = "flattened" =>
        /\ \A i \in 1..Len(collection_paths) :
            LET path == collection_paths[i]
            IN /\ DictHas(collection_map, path)
                    <=> \E r \in dbCollections : r.collectionName = LastComponent(path)
               /\ DictHas(collection_map, path) =>
                    \E r \in dbCollections :
                        /\ r.collectionID = DictGet(collection_map, path)
                        /\ r.collectionName = LastComponent(path)
        /\ \A i, j \in 1..Len(collection_paths) :
            (/\ LastComponent(collection_paths[i]) = LastComponent(collection_paths[j])
             /\ DictHas(collection_map, collection_paths[i]))
            => /\ DictHas(collection_map, collection_paths[j])
               /\ DictGet(collection_map, collection_paths[i])
                    = DictGet(collection_map, collection_paths[j])
        /\ DictKeys(collection_map) \subseteq Range(collection_paths)
        /\ \A i, j \in 1..Len(collection_map) :
            i # j => collection_map[i].key # collection_map[j].key

\* C14 witness: a nested path and a top-level path end in the same name; the
\* store's only collection has that name and no parent, and the nested path
\* is mapped to it.
C14_Witness ==
    /\ pc = "flattened"
    /\ \E i, j \in 1..Len(collection_paths) :
        /\ collection_paths[i] # collection_paths[j]
        /\ HasSlash(collection_paths[j])
        /\ LastComponent(collection_paths[i]) = LastComponent(collection_paths[j])
        /\ DictHas(collection_map, collection_paths[j])
        /\ \E r \in dbCollections :
            /\ r.collectionID = DictGet(collection_map, collection_paths[j])
            /\ r.parentCollectionID = None
    /\ Cardinality(dbCollections) = 1

---------------------------------------------------------------------------
(* Classification: main() loads the library and classify_papers calls       *)
(* classify_paper_in_collections for a paper. The generative service means  *)
(* to name some of the paths it was shown, or a path that does not exist,   *)
(* and writes them one per line, plainly or with blanks and blank lines     *)
(* around them.                                                            *)

MaxReplyLines == 2     \* paths the generative service names in one reply


Unknown == <<"x">>

Decorations == {"plain", "padded"}

RECURSIVE JoinLines(_)
JoinLines(lines) ==
    IF lines = <<>> THEN <<>>
    ELSE IF Len(lines) = 1 THEN lines[1]
    ELSE lines[1] \o <<Newline>> \o JoinLines(Tail(lines))

RECURSIVE PaddedLines(_)
PaddedLines(lines) ==
    IF lines = <<>> THEN <<" ", Newline>>
    ELSE <<Newline, " ">> \o Head(lines) \o <<"\t", Newline>> \o PaddedLines(Tail(lines))

Render(lines, deco) ==
    IF deco = "plain" THEN JoinLines(lines) ELSE PaddedLines(lines)

InitClassify ==
    /\ pc = "init"
    /\ \E m \in 0..MaxStoreColls :
        /\ dbCollections \in
             {S \in StoreRowSets(m) :
                \A r \in S : r.libraryID = library_id /\ r.parentCollectionID = None}
        /\ dbCollectionItems \in
             {L \in StoreLinkSets(m) : \A r \in L : r.itemID \in ItemIds}
        /\ structure \in UNION {DictsOfSize(StoreNames, n) :
                                  n \in 0..(IF SizeBudget - m < MaxEntries
                                            THEN SizeBudget - m ELSE MaxEntries)}
    /\ collections = <<>>
    /\ items = <<>>
    /\ faultAt = 0
    /\ outcome = "none"
    /\ reported = 0
    /\ collection_map = <<>>
    /\ before = NoSnapshot
    /\ Idle
    /\ IdleLater
    /\ NoTags

\* classify_papers: organizer.classify_paper_in_collections(paper_id, library)
ClassifyPaper ==
    /\ pc = "loaded"
    /\ \E pid \in ItemIds, deco \in Decorations,
          len \in 0..MaxReplyLines,
          cands \in {Range(flatten_collections(collections, structure).paths)
                     \cup {Unknown}} :
        /\ len <= SizeBudget - Cardinality(dbCollections) - EntryCount(structure)
        /\ \E sd \in [1..len -> cands] :
            \E r \in {classify_paper_in_collections(World, pid, structure,
                                                    Render(sd, deco))} :
               /\ paper_id' = pid
               /\ said' = sd
               /\ reply' = Render(sd, deco)
               /\ dbCollections' = r.w.db
               /\ dbCollectionItems' = r.w.links
               /\ collections' = r.w.colls
               /\ items' = r.w.items
               /\ collection_paths' = r.collection_paths
               /\ collection_map' = r.collection_map
               /\ kept' = r.collection_ids
               /\ outcome' = IF r.raised THEN "raised" ELSE "ok"
    /\ pc' = "classified"
    /\ UNCHANGED <<inputVars, reported, before, extractVars, tagVars,
                   storeOpVars, batchVars, replyVars, file>>

NextClassify == LoadLibrary \/ ClassifyPaper

SpecClassify == InitClassify /\ [][NextClassify]_vars

---------------------------------------------------------------------------
(* Properties of classification (SpecClassify) *)

\* the lines the service meant to write that are keys of the path map
SaidKeys == SelectSeq(said, LAMBDA c : DictHas(collection_map, c))

\* the rows of collectionItems of the paper classified
PaperLinks == {r \in dbCollectionItems : r.itemID = paper_id}

NameOfCollection(cid) ==
    (CHOOSE r \in dbCollections : r.collectionID = cid).collectionName

\* C3: the reply lines kept are, after trimming and without the blank lines,
\* exactly those that are keys of the path map; when one is kept, the paper's
\* links in the store are exactly the identifiers of the kept lines, numbered
\* in reply order, and its membership list in the mirror is the names of
\* those collections in the same order, whatever the paper belonged to before.
C3_KeptLinesBecomeMembership ==
    pc = "classified" =>
        /\ kept = [i \in 1..Len(SaidKeys) |-> DictGet(collection_map, SaidKeys[i])]
        /\ kept # <<>> =>
            /\ outcome = "ok"
            /\ PaperLinks = {[itemID |-> paper_id, collectionID |-> kept[i],
                              orderIndex |-> i - 1] : i \in 1..Len(kept)}
            /\ items[paper_id].collections
                 = [i \in 1..Len(kept) |-> NameOfCollection(kept[i])]

\* C3 witness: the reply names a known path and an unknown one, with blanks
\* around them; the paper belonged to another collection and now belongs to
\* the known path's collection alone.
C3_Witness ==
    /\ pc = "classified"
    /\ Len(said) = 2 /\ Len(kept) = 1
    /\ reply # JoinLines(said)
    /\ before.items[paper_id].collections # <<>>
    /\ \A r \in before.links : r.itemID = paper_id => r.collectionID # kept[1]
    /\ PaperLinks = {[itemID |-> paper_id, collectionID |-> kept[1], orderIndex |-> 0]}

\* C4: when no line of the reply is a key of the path map, the call raises
\* nothing and leaves store and mirror as they were: the paper's membership,
\* every collection and every other paper.
C4_NoMatchChangesNothing ==
    (pc = "classified" /\ SaidKeys = <<>>) =>
        /\ outcome = "ok"
        /\ kept = <<>>
        /\ dbCollections = before.db
        /\ dbCollectionItems = before.links
        /\ collections = before.colls
        /\ items = before.items

\* C4 witness: a reply whose only line is no key, for a paper that belongs
\* to a collection.
C4_Witness ==
    /\ pc = "classified"
    /\ said # <<>> /\ SaidKeys = <<>>
    /\ items[paper_id].collections # <<>>
    /\ PaperLinks # {}

\* C19: after a classification that applies at least one path, the list of
\* identifiers handed to update_item_collections holds no identifier twice,
\* and the paper has one link row and one membership entry per collection.
C19_NoDuplicateMembership ==
    (pc = "classified" /\ kept # <<>>) =>
        /\ Distinct(kept)
        /\ \A x, y \in PaperLinks : x.collectionID = y.collectionID => x = y
        /\ Len(items[paper_id].collections) = Cardinality(Range(kept))

---------------------------------------------------------------------------
(* The batch commands of main.py: generate_keywords and classify_papers run  *)
(* over the papers that have no collection, one round of the for loop at a  *)
(* time. A round may meet a fault: the generative service raises, or the    *)
(* store raises inside update_item_collections / update_item_keywords, whose *)
(* with block then rolls its statements back before the mirror is touched.  *)

\* improve_paper_keywords: new_keywords are the trimmed non-blank lines of the
\* reply; the set of [w, raised]
improve_paper_keywords(w, pid, txt) == update_item_keywords(w, pid, ReplyLines(txt))

\* the keys of library.items, in the dict's order
RECURSIVE ItemOrder(_)
ItemOrder(ids) ==
    IF ids = {} THEN <<>>
    ELSE LET i == CHOOSE x \in ids : \A y \in ids : x <= y
         IN <<i>> \o ItemOrder(ids \ {i})

\* every paper, whether it has a collection or not
Unclassified_all(its) == ItemOrder(DOMAIN its)

\* {pid: paper for pid, paper in library.items.items() if not paper.collections}
Unclassified(its) ==
    SelectSeq(ItemOrder(DOMAIN its), LAMBDA pid : its[pid].collections = <<>>)

Faults == {"none", "service", "store"}

KwK == <<"k">>
KwM == <<"m">>
KeywordNames == {KwK, KwM}

\* no tag, one, two, or two of the same name
TagRowSets ==
    { {}, {[tagID |-> 1, name |-> KwK]},
      {[tagID |-> 1, name |-> KwK], [tagID |-> 2, name |-> KwM]},
      {[tagID |-> 1, name |-> KwK], [tagID |-> 2, name |-> KwK]} }

\* paper 1 bears any of the tags, paper 2 the first or none
ItemTagSets(tags) ==
    { {[itemID |-> 1, tagID |-> t, type |-> 0] : t \in S}
      \cup {[itemID |-> 2, tagID |-> t, type |-> 0] : t \in T} :
        S \in SUBSET {t.tagID : t \in tags},
        T \in SUBSET {t.tagID : t \in {x \in tags : x.tagID = 1}} }

\* what the store and the mirror hold about one paper
PaperState(w, pid) ==
    [links |-> {r \in w.links : r.itemID = pid},
     itemTags |-> {r \in w.itemTags : r.itemID = pid},
     item |-> w.items[pid]]

\* one round of the loop for paper pid, the service replying txt unless it
\* raises: the set of [w, raised]
BatchRound(w, cmd, pid, struct, txt, fault) ==
    IF fault = "service" THEN {[w |-> w, raised |-> TRUE]}
    ELSE IF cmd = "keywords"
    THEN IF fault = "store" THEN {[w |-> w, raised |-> TRUE]}
         ELSE improve_paper_keywords(w, pid, txt)
    ELSE LET r == classify_paper_in_collections(w, pid, struct, txt)
         IN IF fault = "store" /\ r.collection_ids # <<>>
            THEN {[w |-> w, raised |-> TRUE]}
            ELSE {[w |-> r.w, raised |-> r.raised]}

\* the reply lines the batch has received so far
RECURSIVE LinesSaid(_)
LinesSaid(done) == IF done = <<>> THEN 0 ELSE Len(Head(done).said) + LinesSaid(Tail(done))

InitBatch ==
    /\ pc = "init"
    /\ command \in {"classify", "keywords"}
    /\ \E m \in 0..(IF command = "keywords" THEN 1 ELSE MaxStoreColls) :
        \E rows \in {{S \in StoreRowSets(m) :
                        \A r \in S : r.libraryID = library_id
                                      /\ r.parentCollectionID = None}},
           links \in {{L \in StoreLinkSets(m) : \A r \in L : r.itemID \in ItemIds}},
           trees \in {UNION {DictsOfSize(StoreNames, n) :
                               n \in 0..(IF command = "classify"
                                         THEN MaxEntries - m - 1 ELSE 0)}} :
            /\ dbCollections \in rows
            /\ dbCollectionItems \in links
            /\ structure \in trees
    /\ dbTags \in (IF command = "keywords" THEN TagRowSets ELSE {{}})
    /\ dbItemTags \in ItemTagSets(dbTags)
    /\ collections = <<>>
    /\ items = <<>>
    /\ faultAt = 0
    /\ outcome = "none"
    /\ reported = 0
    /\ collection_map = <<>>
    /\ before = NoSnapshot
    /\ Idle
    /\ op = NoOp
    /\ new_keywords = <<>>
    /\ unclassified = <<>>
    /\ processed = <<>>
    /\ parts = NoParts
    /\ text2 = <<>>
    /\ result2 = [kind |-> "none", val |-> <<>>]
    /\ file = NoFile

\* generate_keywords / classify_papers: the papers without a collection
StartBatch ==
    /\ pc = "loaded"
    /\ unclassified' = Unclassified(items)
    /\ processed' = <<>>
    /\ pc' = "batch"
    /\ UNCHANGED <<storeVars, mirrorVars, inputVars, outcome, reported, before,
                   classifyVars, flattenVars, extractVars, tagVars, storeOpVars,
                   command, replyVars, file>>

\* one round of the for loop
ProcessPaper ==
    /\ pc = "batch"
    /\ Len(processed) < Len(unclassified)
    /\ \E fault \in Faults, len \in 0..(MaxReplyLines - LinesSaid(processed)) :
        /\ len <= SizeBudget - 1 - Cardinality(dbCollections)
                     - EntryCount(structure) - LinesSaid(processed)
        /\ \E sd \in [1..len -> IF command = "keywords" THEN KeywordNames
                             ELSE Range(flatten_collections(collections, structure).paths)
                                  \cup {Unknown}] :
          \E r \in BatchRound(World, command, unclassified[Len(processed) + 1],
                              structure, Render(sd, "plain"), fault) :
            /\ paper_id' = unclassified[Len(processed) + 1]
            /\ said' = sd
            /\ reply' = Render(sd, "plain")
            /\ dbCollections' = r.w.db
            /\ dbCollectionItems' = r.w.links
            /\ dbTags' = r.w.tags
            /\ dbItemTags' = r.w.itemTags
            /\ collections' = r.w.colls
            /\ items' = r.w.items
            /\ IF r.raised
               THEN /\ pc' = "aborted"
                    /\ outcome' = "raised"
                    /\ processed' = processed
               ELSE /\ pc' = "batch"
                    /\ outcome' = outcome
                    /\ processed' =
                         Append(processed,
                                [paper_id |-> unclassified[Len(processed) + 1],
                                 said |-> sd,
                                 left |-> PaperState(r.w, unclassified[Len(processed) + 1])])
    /\ UNCHANGED <<inputVars, reported, before, kept, flattenVars, extractVars,
                   storeOpVars, command, unclassified, replyVars, file>>

\* the loop is over: the command returns
FinishBatch ==
    /\ pc = "batch"
    /\ Len(processed) = Len(unclassified)
    /\ pc' = "done"
    /\ outcome' = "ok"
    /\ UNCHANGED <<storeVars, mirrorVars, inputVars, reported, before,
                   classifyVars, flattenVars, extractVars, tagVars, storeOpVars,
                   batchVars, replyVars, file>>

NextBatch == LoadLibrary \/ StartBatch \/ ProcessPaper \/ FinishBatch

SpecBatch == InitBatch /\ [][NextBatch]_vars

---------------------------------------------------------------------------
(* Properties of the batch commands (SpecBatch) *)

\* the papers the store linked to no collection when the batch began, by
\* identifier
NoMembershipBefore ==
    ItemOrder({i \in DOMAIN before.items :
                  ~\E r \in before.links : r.itemID = i})

\* C11: the batch handles the papers that had no membership when it began,
\* one after the other in store order; when the round of the i-th paper
\* raises, the batch ends raising, the papers handled are exactly the i-1
\* before it, every paper after the i-th is in store and mirror as it was
\* when the batch began, and every paper handled is as its round left it.
C11_BatchAbortsInOrder ==
    pc \in {"batch", "aborted", "done"} =>
        /\ unclassified = NoMembershipBefore
        /\ Len(processed) <= Len(unclassified)
        /\ \A k \in 1..Len(processed) :
            /\ processed[k].paper_id = unclassified[k]
            /\ PaperState(World, unclassified[k]) = processed[k].left
        /\ pc = "done" => Len(processed) = Len(unclassified) /\ outcome = "ok"
        /\ pc = "aborted" =>
            /\ outcome = "raised"
            /\ paper_id = unclassified[Len(processed) + 1]
            /\ \A k \in (Len(processed) + 2)..Len(unclassified) :
                 PaperState(World, unclassified[k])
                   = PaperState(before, unclassified[k])

\* C11 witness: the round of the second of three papers raised, after the
\* round of the first had changed that paper.
C11_Witness ==
    /\ pc = "aborted"
    /\ Len(unclassified) = 3
    /\ Len(processed) = 1
    /\ processed[1].left # PaperState(before, unclassified[1])
    /\ PaperState(World, unclassified[1]) = processed[1].left

---------------------------------------------------------------------------
(* The Library Store operations called one after the other on a loaded      *)
(* library, with identifiers the library holds and identifiers it does not. *)

MaxOps == 2            \* store operations called after load_library

\* identifiers no collection of the store has
UnknownCollectionIds == {0, 9}

CollArgs == {r.collectionID : r \in dbCollections} \cup UnknownCollectionIds

ParentArgs == {None} \cup CollArgs

\* the papers of the mirror, and an item that is no paper of it
ItemArgs == ItemIds \cup OtherItemIds

IsUnknownCollection(cid) == ~\E r \in dbCollections : r.collectionID = cid

IsUnknownPaper(item_id) == item_id \notin DOMAIN items

CanOperate ==
    /\ pc = "loaded"
    /\ op.n < MaxOps
    /\ op.n + Cardinality(dbCollections) <= MaxOps

\* the store and the mirror after the operation, and the record of the call
Operated(name, unknown, w, raised) ==
    /\ dbCollections' = w.db
    /\ dbCollectionItems' = w.links
    /\ dbTags' = w.tags
    /\ dbItemTags' = w.itemTags
    /\ collections' = w.colls
    /\ items' = w.items
    /\ op' = [name |-> name, n |-> op.n + 1, unknown |-> unknown, raised |-> raised]
    /\ before' = Snapshot(World)
    /\ outcome' = IF raised THEN "raised" ELSE "ok"
    /\ UNCHANGED <<pc, inputVars, reported, classifyVars, flattenVars,
                   extractVars, batchVars, replyVars, file>>

InitStore ==
    /\ pc = "init"
    /\ \E m \in 0..MaxStoreColls :
        /\ dbCollections \in StoreRowSets(m)
        /\ dbCollectionItems \in StoreLinkSets(m)
    /\ structure = <<>>
    /\ collections = <<>>
    /\ items = <<>>
    /\ faultAt = 0
    /\ outcome = "none"
    /\ reported = 0
    /\ collection_map = <<>>
    /\ before = NoSnapshot
    /\ Idle
    /\ IdleLater
    /\ NoTags

CreateCollection ==
    /\ CanOperate
    /\ \E name \in StoreNames, parent_id \in ParentArgs :
        \E r \in {create_collection(World, name, parent_id)} :
          /\ Operated("create_collection",
                      parent_id # None /\ IsUnknownCollection(parent_id), r.w, r.raised)
          /\ new_keywords' = new_keywords

CreateStructure ==
    /\ CanOperate
    /\ \E n \in 0..(MaxEntries - 2) :
        \E struct \in DictsOfSize(StoreNames, n) :
          \E r \in {create_collection_structure(World, struct, None)} :
            /\ Operated("create_collection_structure", FALSE, r.w, r.raised)
            /\ new_keywords' = new_keywords

DeleteCollection ==
    /\ CanOperate
    /\ \E collection_id \in CollArgs :
        \E r \in {delete_collection(World, collection_id)} :
          /\ Operated("delete_collection", IsUnknownCollection(collection_id),
                      r.w, r.raised)
          /\ new_keywords' = new_keywords

MoveCollection ==
    /\ CanOperate
    /\ \E collection_id \in CollArgs, new_parent_id \in ParentArgs :
        \E r \in {move_collection(World, collection_id, new_parent_id)} :
          /\ Operated("move_collection",
                      \/ IsUnknownCollection(collection_id)
                      \/ new_parent_id # None /\ IsUnknownCollection(new_parent_id),
                      r.w, r.raised)
          /\ new_keywords' = new_keywords

UpdateItemCollections ==
    /\ CanOperate
    /\ \E item_id \in ItemArgs, len \in 0..MaxReplyLines :
        \E collection_ids \in [1..len -> CollArgs] :
          \E r \in {update_item_collections(World, item_id, collection_ids)} :
            /\ Operated("update_item_collections",
                        \/ IsUnknownPaper(item_id)
                        \/ \E i \in 1..len : IsUnknownCollection(collection_ids[i]),
                        r.w, r.raised)
            /\ new_keywords' = new_keywords

UpdateItemKeywords ==
    /\ CanOperate
    /\ \E item_id \in ItemArgs, len \in 0..1 :
        \E new \in [1..len -> KeywordNames] :
          \E r \in update_item_keywords(World, item_id, new) :
            /\ Operated("update_item_keywords", IsUnknownPaper(item_id), r.w, r.raised)
            /\ new_keywords' = new

DeleteAll ==
    /\ CanOperate
    /\ \E w \in {delete_all_collections(World)} :
          /\ Operated("delete_all_collections", FALSE, w, FALSE)
          /\ new_keywords' = new_keywords

NextStore ==
    \/ LoadLibrary
    \/ CreateCollection
    \/ CreateStructure
    \/ DeleteCollection
    \/ MoveCollection
    \/ UpdateItemCollections
    \/ UpdateItemKeywords
    \/ DeleteAll

SpecStore == InitStore /\ [][NextStore]_vars

---------------------------------------------------------------------------
(* Properties of the Library Store operations (SpecStore) *)

\* C12 (as claimed): an operation given a paper the mirror does not hold or a
\* collection identifier that is not in the store raises, and leaves the
\* store and the mirror as they were.
C12_UnknownFaults ==
    (op.name # "none" /\ op.unknown) =>
        /\ op.raised
        /\ Snapshot(World) = before

\* how often x occurs in the list
Count(l, x) == Cardinality({i \in 1..Len(l) : l[i] = x})

\* the names of the collections the store links a paper to, one per link row
LinkedNames(item_id) ==
    LET rows == ScanCollectionItems({r \in dbCollectionItems :
                                       r.itemID = item_id
                                       /\ ~IsUnknownCollection(r.collectionID)})
    IN [i \in 1..Len(rows) |-> NameOfCollection(rows[i].collectionID)]

\* C17 (as claimed): after load_library and any store operations, the
\* mirror's collections with their parents are exactly the store's, and each
\* paper's membership list holds the names of exactly the collections the
\* store links the paper to.
C17_MirrorAgrees ==
    pc = "loaded" =>
        /\ MirrorCollectionsAgree
        /\ \A i \in DOMAIN items :
            /\ Len(items[i].collections) = Len(LinkedNames(i))
            /\ \A nm \in StoreNames :
                 Count(items[i].collections, nm) = Count(LinkedNames(i), nm)

---------------------------------------------------------------------------
(* Tag update: improve_paper_keywords called for papers of a loaded library, *)
(* the generative service naming keywords one per line.                     *)

KwN == <<"n">>
SaidKeywords == KeywordNames \cup {KwN}

InitTags ==
    /\ pc = "init"
    /\ dbCollections = {}
    /\ dbCollectionItems = {}
    /\ dbTags \in TagRowSets
    /\ dbItemTags \in ItemTagSets(dbTags)
    /\ structure = <<>>
    /\ collections = <<>>
    /\ items = <<>>
    /\ faultAt = 0
    /\ outcome = "none"
    /\ reported = 0
    /\ collection_map = <<>>
    /\ before = NoSnapshot
    /\ Idle
    /\ IdleLater

\* generate_keywords: organizer.improve_paper_keywords(paper_id, library)
ImprovePaperKeywords ==
    /\ pc = "loaded"
    /\ op.n < MaxOps
    /\ \E pid \in ItemIds,
          len \in 0..(MaxReplyLines - (IF op.n = 0 THEN 0 ELSE op.lines)) :
        \E sd \in [1..len -> SaidKeywords] :
          \E r \in improve_paper_keywords(World, pid, Render(sd, "padded")) :
            /\ paper_id' = pid
            /\ said' = sd
            /\ reply' = Render(sd, "padded")
            /\ new_keywords' = ReplyLines(Render(sd, "padded"))
            /\ dbTags' = r.w.tags
            /\ dbItemTags' = r.w.itemTags
            /\ items' = r.w.items
            /\ before' = Snapshot(World)
            /\ outcome' = IF r.raised THEN "raised" ELSE "ok"
            /\ op' = [name |-> "improve_paper_keywords", n |-> op.n + 1,
                      unknown |-> FALSE, raised |-> r.raised,
                      lines |-> len + (IF op.n = 0 THEN 0 ELSE op.lines),
                      again |-> op.n > 0 /\ pid = paper_id /\ sd = said]
    /\ UNCHANGED <<pc, storeVars, collections, inputVars, reported, kept,
                   flattenVars, extractVars, batchVars, replyVars, file>>

NextTags == LoadLibrary \/ ImprovePaperKeywords

SpecTags == InitTags /\ [][NextTags]_vars

---------------------------------------------------------------------------
(* Properties of tag update (SpecTags) *)

\* the tags the store gives a paper, each with its name
StoredKeywords(item_id) ==
    {<<t.tagID, t.name>> :
        t \in {y \in dbTags :
                 \E x \in dbItemTags : x.itemID = item_id /\ x.tagID = y.tagID}}

\* C13: after a tag update the paper has every keyword it had before and
\* every keyword the service named, each once, the new list being what was
\* handed to the update; the store gives the paper one tag row per keyword,
\* with these names; no other paper's keywords change; and an update that
\* repeats the one before it leaves the paper's keyword set as it was.
C13_TagUpdateMonotonicIdempotent ==
    op.name = "improve_paper_keywords" =>
        /\ ~op.raised
        /\ new_keywords = said
        /\ Range(before.items[paper_id].keywords) \subseteq Range(items[paper_id].keywords)
        /\ Range(said) \subseteq Range(items[paper_id].keywords)
        /\ Range(items[paper_id].keywords)
             \subseteq Range(before.items[paper_id].keywords) \cup Range(said)
        /\ Distinct(items[paper_id].keywords)
        /\ {x \in dbItemTags : x.itemID = paper_id}
             = {[itemID |-> paper_id, tagID |-> k[1], type |-> 0] :
                  k \in StoredKeywords(paper_id)}
        /\ Cardinality(StoredKeywords(paper_id)) = Len(items[paper_id].keywords)
        /\ {k[2] : k \in StoredKeywords(paper_id)} = Range(items[paper_id].keywords)
        /\ \A i \in DOMAIN items \ {paper_id} :
             /\ items[i] = before.items[i]
             /\ {x \in dbItemTags : x.itemID = i} = {x \in before.itemTags : x.itemID = i}
        /\ op.again =>
             Range(items[paper_id].keywords) = Range(before.items[paper_id].keywords)

\* C13 witness: a paper that had a keyword was given a new one, and the same
\* update was applied a second time.
C13_Witness ==
    /\ op.name = "improve_paper_keywords"
    /\ op.again
    /\ said # <<>>
    /\ Len(items[paper_id].keywords) >= 2
    /\ \E k \in Range(items[paper_id].keywords) : k \notin Range(said)
    /\ reply # JoinLines(said)

---------------------------------------------------------------------------
(* The Response Extractor: the try block of propose_collection_structure.   *)
(* Indexes are Python's, from 0; an exception is the name of its class.     *)

\* the backquote character (a string of the module cannot hold it)
Backquote == "BACKQUOTE"
Fence == <<Backquote, Backquote, Backquote>>
JsonTag == <<"j", "s", "o", "n">>
OpenBrace == "{"
CloseBrace == "}"
Quote == "\""

\* json.loads on text made of braces, quotes, colons, commas, blanks and
\* letters: a value is a string or an object whose keys are strings; the
\* parsers give [ok, val, pos], pos the index after what was read. An object
\* is a dict of entries [name, isdict, entries], as a TaxonomyNode.

RECURSIVE SkipBlanks(_, _)
SkipBlanks(s, i) ==
    IF i < Len(s) /\ s[i + 1] \in Whitespace THEN SkipBlanks(s, i + 1) ELSE i

CharAt(s, i) == IF i < Len(s) THEN s[i + 1] ELSE "EOF"

ParseFail == [ok |-> FALSE, val |-> <<>>, pos |-> 0]

\* s[i] is a quote: the string up to the next quote
ParseString(s, i) ==
    LET j == FindFrom(s, <<Quote>>, i + 1)
    IN IF j < 0 THEN ParseFail
       ELSE [ok |-> TRUE, val |-> Slice(s, i + 1, j), pos |-> j + 1]

EntrySet(d, name, isdict, entries) ==
    IF \E k \in 1..Len(d) : d[k].name = name
    THEN [k \in 1..Len(d) |->
            IF d[k].name = name
            THEN [name |-> name, isdict |-> isdict, entries |-> entries]
            ELSE d[k]]
    ELSE Append(d, [name |-> name, isdict |-> isdict, entries |-> entries])

RECURSIVE ParseObject(_, _)
RECURSIVE ParseMembers(_, _, _)

\* s[i] is the first character of a value
ParseValue(s, i) ==
    IF CharAt(s, i) = OpenBrace THEN
        LET o == ParseObject(s, i)
        IN [ok |-> o.ok, isdict |-> TRUE, val |-> o.val, pos |-> o.pos]
    ELSE IF CharAt(s, i) = Quote THEN
        LET t == ParseString(s, i)
        IN [ok |-> t.ok, isdict |-> FALSE, val |-> <<>>, pos |-> t.pos]
    ELSE [ok |-> FALSE, isdict |-> FALSE, val |-> <<>>, pos |-> 0]

\* the members of an object from the key at index i on, d the pairs read so far
ParseMembers(s, i, d) ==
    IF CharAt(s, i) # Quote THEN ParseFail
    ELSE LET k == ParseString(s, i)
         IN IF ~k.ok THEN ParseFail
            ELSE LET c == SkipBlanks(s, k.pos)
                 IN IF CharAt(s, c) # ":" THEN ParseFail
                    ELSE LET v == ParseValue(s, SkipBlanks(s, c + 1))
                         IN IF ~v.ok THEN ParseFail
                            ELSE LET d1 == EntrySet(d, k.val, v.isdict, v.val)
                                     e == SkipBlanks(s, v.pos)
                                 IN IF CharAt(s, e) = CloseBrace
                                    THEN [ok |-> TRUE, val |-> d1, pos |-> e + 1]
                                    ELSE IF CharAt(s, e) = ","
                                    THEN ParseMembers(s, SkipBlanks(s, e + 1), d1)
                                    ELSE ParseFail

\* s[i] is an opening brace
ParseObject(s, i) ==
    LET j == SkipBlanks(s, i + 1)
    IN IF CharAt(s, j) = CloseBrace THEN [ok |-> TRUE, val |-> <<>>, pos |-> j + 1]
       ELSE ParseMembers(s, j, <<>>)

\* json.loads(s): [exc, isdict, val]
json_loads(s) ==
    LET v == ParseValue(s, SkipBlanks(s, 0))
    IN IF v.ok /\ SkipBlanks(s, v.pos) = Len(s)
       THEN [exc |-> "none", isdict |-> v.isdict, val |-> v.val]
       ELSE [exc |-> "JSONDecodeError", isdict |-> FALSE, val |-> <<>>]

\* text[i] for a Python index i >= -1
PyIndexOk(s, i) == IF i < 0 THEN -i <= Len(s) ELSE i < Len(s)

PyAt(s, i) == IF i < 0 THEN s[Len(s) + 1 + i] ELSE s[i + 1]

\* the scan that ends at the first closing brace, nested or not
RECURSIVE ScanBraces_first_close(_, _, _, _)
ScanBraces_first_close(s, start, i, count) ==
    IF i >= Len(s) THEN [exc |-> "none", end |-> start]
    ELSE IF ~PyIndexOk(s, i) THEN [exc |-> "IndexError", end |-> start]
    ELSE IF PyAt(s, i) = CloseBrace THEN [exc |-> "none", end |-> i + 1]
    ELSE ScanBraces_first_close(s, start, i + 1, count)

\* the for loop over range(start, len(text)) from index i on, with the count
\* so far: [exc, end]
RECURSIVE ScanBraces(_, _, _, _)
ScanBraces(s, start, i, count) ==
    IF i >= Len(s) THEN [exc |-> "none", end |-> start]
    ELSE IF ~PyIndexOk(s, i) THEN [exc |-> "IndexError", end |-> start]
    ELSE IF PyAt(s, i) = OpenBrace THEN ScanBraces(s, start, i + 1, count + 1)
    ELSE IF PyAt(s, i) = CloseBrace THEN
        IF count - 1 = 0 THEN [exc |-> "none", end |-> i + 1]
        ELSE ScanBraces(s, start, i + 1, count - 1)
    ELSE ScanBraces(s, start, i + 1, count)

\* the markdown step: the first fenced block, without a leading json
Unfence(s) ==
    IF find(s, Fence) >= 0
    THEN LET block == split(s, Fence)[2]
         IN strip(IF startswith(block, JsonTag) THEN Slice(block, 4, Len(block)) ELSE block)
    ELSE s

\* the body of the try block: [exc, val]
ExtractBody(raw) ==
    LET txt == Unfence(strip(raw))
        start == find(txt, <<OpenBrace>>)
        scan == ScanBraces(txt, start, start, 0)
    IN IF scan.exc # "none" THEN [exc |-> scan.exc, val |-> <<>>]
       ELSE IF start >= 0 /\ scan.end > start
       THEN LET j == json_loads(Slice(txt, start, scan.end))
            IN [exc |-> j.exc, val |-> j.val]
       ELSE [exc |-> "ValueError", val |-> <<>>]

\* an except clause that names ValueError
CaughtValueError(exc) == exc \in {"ValueError", "JSONDecodeError"}

\* except Exception
Caught(exc) == exc \in {"ValueError", "JSONDecodeError", "IndexError"}

\* what propose_collection_structure returns for the text of the reply: the
\* parsed object, the failure result {"Error": ...}, or an exception raised
ExtractResponse(raw) ==
    LET b == ExtractBody(raw)
    IN IF b.exc = "none" THEN [kind |-> "object", val |-> b.val]
       ELSE IF Caught(b.exc) THEN [kind |-> "failure", val |-> <<>>]
       ELSE [kind |-> "raised", val |-> <<>>]

---------------------------------------------------------------------------
(* The Response Extractor applied to the text of a reply: any text made of  *)
(* up to MaxTextPieces pieces.                                             *)

MaxTextPieces == 4

Pieces ==
    { <<OpenBrace>>, <<CloseBrace>>, <<Quote, "a", Quote, ":">>, <<Quote, "b", Quote>>,
      <<",">>, Fence, JsonTag, <<" ">>, <<"x">> }

RECURSIVE Concat(_)
Concat(ps) == IF ps = <<>> THEN <<>> ELSE Head(ps) \o Concat(Tail(ps))

\* the texts of up to max pieces
Texts(max) == UNION {{Concat(ps) : ps \in [1..n -> Pieces]} : n \in 0..max}

InitExtract ==
    /\ pc = "init"
    /\ text \in Texts(MaxTextPieces)
    /\ result = [kind |-> "none", val |-> <<>>]
    /\ dbCollections = {}
    /\ dbCollectionItems = {}
    /\ collections = <<>>
    /\ items = <<>>
    /\ structure = <<>>
    /\ faultAt = 0
    /\ outcome = "none"
    /\ reported = 0
    /\ before = NoSnapshot
    /\ IdleLater
    /\ NoTags
    /\ paper_id = 0
    /\ said = <<>>
    /\ reply = <<>>
    /\ collection_paths = <<>>
    /\ collection_map = <<>>
    /\ kept = <<>>

\* propose_collection_structure, from the text of the reply on
ProposeCollectionStructure ==
    /\ pc = "init"
    /\ result' = ExtractResponse(text)
    /\ pc' = "extracted"
    /\ UNCHANGED <<storeVars, mirrorVars, inputVars, outcome, reported, before,
                   classifyVars, flattenVars, text, tagVars, storeOpVars,
                   batchVars, replyVars, file>>

NextExtract == ProposeCollectionStructure

SpecExtract == InitExtract /\ [][NextExtract]_vars

---------------------------------------------------------------------------
(* Properties of the Response Extractor (SpecExtract) *)

HasOpenBrace(s) == \E i \in 1..Len(s) : s[i] = OpenBrace

\* C5: for every text the extractor returns the parsed object or the failure
\* result and raises nothing; a text without any '{' gives the failure result.
C5_NeverRaises ==
    pc = "extracted" =>
        /\ result.kind \in {"object", "failure"}
        /\ ~HasOpenBrace(text) => result.kind = "failure"

\* C5 witness: the empty text, for which the scan reads text[-1], gave the
\* failure result.
C5_Witness ==
    /\ pc = "extracted"
    /\ text = <<>>
    /\ result.kind = "failure"

---------------------------------------------------------------------------
(* The Response Extractor applied to replies made of prose, a fenced or     *)
(* bare block and prose again, the block being the text of an object, that  *)
(* text cut short, that text with a brace after it, or an object with a     *)
(* brace inside a string; text2 is the same block without the prose.        *)

ProsePieces == { <<"x">>, <<" ">>, <<OpenBrace>>, <<CloseBrace>>, <<Backquote>> }

\* the texts of exactly n pieces of prose
ProseOf(n) == {Concat(ps) : ps \in [1..n -> ProsePieces]}

BlockKinds == {"object", "cut", "extra", "bracestring"}

\* json.dumps of a TaxonomyNode, compact; a leaf is written as a string
RECURSIVE ToJson(_)
RECURSIVE ToJsonMembers(_)
ToJsonMembers(d) ==
    LET e == Head(d)
        member == <<Quote>> \o e.name \o <<Quote, ":">>
                  \o (IF e.isdict THEN ToJson(e.entries) ELSE <<Quote, "b", Quote>>)
    IN IF Len(d) = 1 THEN member ELSE member \o <<",">> \o ToJsonMembers(Tail(d))

ToJson(d) ==
    IF d = <<>> THEN <<OpenBrace, CloseBrace>>
    ELSE <<OpenBrace>> \o ToJsonMembers(d) \o <<CloseBrace>>

BraceKey == <<CloseBrace>>

\* the object a block of kind bracestring holds: the tree under the key "}"
BraceTree(tree) == <<[name |-> BraceKey, isdict |-> TRUE, entries |-> tree]>>

BlockText(kind, tree) ==
    IF kind = "object" THEN ToJson(tree)
    ELSE IF kind = "cut" THEN SubSeq(ToJson(tree), 1, Len(ToJson(tree)) - 1)
    ELSE IF kind = "extra" THEN ToJson(tree) \o <<CloseBrace>>
    ELSE ToJson(BraceTree(tree))

ReplyText(pt, pre, post) ==
    IF pt.fenced
    THEN pre \o Fence \o pt.tag \o BlockText(pt.kind, pt.tree)
         \o (IF pt.closed THEN Fence \o post ELSE <<>>)
    ELSE pre \o BlockText(pt.kind, pt.tree) \o post

InitReply ==
    /\ pc = "init"
    /\ \E e \in 0..(MaxEntries - 1), a \in 0..(MaxTextPieces - 1), b \in 0..(MaxTextPieces - 1) :
        /\ e + a + b <= MaxTextPieces - 1
        /\ \E tree \in DictsOfSize(StoreNames, e), pre \in ProseOf(a), post \in ProseOf(b),
              fenced \in BOOLEAN, closed \in BOOLEAN, tag \in {<<>>, JsonTag},
              kind \in BlockKinds :
            /\ ~fenced => (closed /\ tag = <<>>)
            /\ ~closed => post = <<>>
            /\ parts = [pre |-> pre, post |-> post, fenced |-> fenced,
                        closed |-> closed, tag |-> tag, kind |-> kind, tree |-> tree]
    /\ text = ReplyText(parts, parts.pre, parts.post)
    /\ text2 = ReplyText(parts, <<>>, <<>>)
    /\ result = [kind |-> "none", val |-> <<>>]
    /\ result2 = [kind |-> "none", val |-> <<>>]
    /\ dbCollections = {}
    /\ dbCollectionItems = {}
    /\ collections = <<>>
    /\ items = <<>>
    /\ structure = <<>>
    /\ faultAt = 0
    /\ outcome = "none"
    /\ reported = 0
    /\ before = NoSnapshot
    /\ NoTags
    /\ paper_id = 0
    /\ said = <<>>
    /\ reply = <<>>
    /\ collection_paths = <<>>
    /\ collection_map = <<>>
    /\ kept = <<>>
    /\ op = NoOp
    /\ new_keywords = <<>>
    /\ command = "none"
    /\ unclassified = <<>>
    /\ processed = <<>>
    /\ file = NoFile

\* propose_collection_structure, from the text of the reply on, for the reply
\* and for the reply without its prose
ProposeForBoth ==
    /\ pc = "init"
    /\ \E r \in {[t \in {text, text2} |-> ExtractResponse(t)]} :
          /\ result' = r[text]
          /\ result2' = r[text2]
    /\ pc' = "extracted"
    /\ UNCHANGED <<storeVars, mirrorVars, inputVars, outcome, reported, before,
                   classifyVars, flattenVars, text, tagVars, storeOpVars,
                   batchVars, parts, text2, file>>

NextReply == ProposeForBoth

SpecReply == InitReply /\ [][NextReply]_vars

\* a fenced code block delimiter occurs in s
HasFence(s) == \E i \in 0..(Len(s) - Len(Fence)) : OccursAt(s, Fence, i)

\* the content of the first fenced block of s: what stands between the first
\* delimiter and the next one, or the end of the text
FirstBlock(s) ==
    LET at == {i \in 0..(Len(s) - Len(Fence)) : OccursAt(s, Fence, i)}
        open == Min(at)
        later == {i \in at : i >= open + Len(Fence)}
        close == IF later = {} THEN Len(s) ELSE Min(later)
    IN SubSeq(s, open + Len(Fence) + 1, close)

\* the block without a leading language tag
DropTag(b) ==
    IF Len(b) >= Len(JsonTag) /\ SubSeq(b, 1, Len(JsonTag)) = JsonTag
    THEN SubSeq(b, Len(JsonTag) + 1, Len(b))
    ELSE b

\* a brace stands between two quotes of s
BraceInString(s) ==
    \E i \in 1..Len(s) :
        /\ s[i] \in {OpenBrace, CloseBrace}
        /\ Cardinality({j \in 1..(i - 1) : s[j] = Quote}) % 2 = 1

\* the text the scan works on: the first fenced block without its tag, or
\* the whole text, without the whitespace around it
Cleaned(s) == IF HasFence(s) THEN strip(DropTag(FirstBlock(s))) ELSE strip(s)

\* opening braces minus closing braces among s[p..q]
Nesting(s, p, q) ==
    Cardinality({i \in p..q : s[i] = OpenBrace})
    - Cardinality({i \in p..q : s[i] = CloseBrace})

OpenAt(s) == {i \in 1..Len(s) : s[i] = OpenBrace}

\* the closing braces after the first opening one at which the nesting is zero
ClosedAt(s) ==
    LET p == Min(OpenAt(s))
    IN {q \in (p + 1)..Len(s) : s[q] = CloseBrace /\ Nesting(s, p, q) = 0}

HasSpan(s) == OpenAt(s) # {} /\ ClosedAt(s) # {}

\* from the first opening brace to the first closing brace at which the
\* nesting is back to zero
Span(s) == SubSeq(s, Min(OpenAt(s)), Min(ClosedAt(s)))

Failure == [kind |-> "failure", val |-> <<>>]

\* the result for a candidate object text
ResultOfSpan(span) ==
    LET j == json_loads(span)
    IN IF j.exc = "none" THEN [kind |-> "object", val |-> j.val] ELSE Failure

\* prose that holds no brace and no piece of a delimiter
Plain(s) == \A i \in 1..Len(s) : s[i] \notin {OpenBrace, CloseBrace, Backquote}

\* C15: for a text with a fenced code block delimiter, the result depends
\* only on the content of the first fenced block: the text and the text
\* without its prose, whenever their first fenced blocks are the same, give
\* the same result; and a first fenced block that, without its language tag
\* and the whitespace around it, is the text of an object gives exactly that
\* object.
C15_FirstFencedBlockDecides ==
    (pc = "extracted" /\ HasFence(text)) =>
        /\ (HasFence(text2) /\ FirstBlock(text2) = FirstBlock(text)) => result = result2
        /\ \A tree \in {parts.tree, BraceTree(parts.tree)} :
            Cleaned(text) = ToJson(tree) => result = [kind |-> "object", val |-> tree]

\* C16: for a text with no brace inside a string, the result is that of the
\* span from the first opening brace to the first later closing brace at
\* which the nesting counter is back to zero; without such a span it is the
\* failure result; texts with the same span give the same result; and an
\* object between prose without braces or delimiters is found whole.
C16_SpanIsFirstBalanced ==
    (pc = "extracted" /\ ~BraceInString(text)) =>
        /\ LET t == Cleaned(text)
               t2 == Cleaned(text2)
           IN /\ result = IF HasSpan(t) THEN ResultOfSpan(Span(t)) ELSE Failure
              /\ (HasSpan(t) /\ HasSpan(t2) /\ Span(t) = Span(t2)) => result = result2
        /\ (parts.kind \in {"object", "extra"} /\ Plain(parts.pre \o parts.post))
               => result = [kind |-> "object", val |-> parts.tree]

\* a nested object with prose before and after its span has been found whole
C16_Witness ==
    /\ pc = "extracted"
    /\ ~BraceInString(text)
    /\ HasSpan(Cleaned(text))
    /\ Min(OpenAt(Cleaned(text))) > 1
    /\ Min(ClosedAt(Cleaned(text))) < Len(Cleaned(text))
    /\ \E q \in 1..Len(Cleaned(text)) :
          /\ q < Min(ClosedAt(Cleaned(text)))
          /\ q > Min(OpenAt(Cleaned(text)))
          /\ Cleaned(text)[q] = CloseBrace
    /\ result.kind = "object"
    /\ result.val # <<>>

---------------------------------------------------------------------------
(* The implement command: implement_collections opens the structure file,   *)
(* parses it and hands the structure to implement_collection_structure. The *)
(* file is missing, empty, or holds the text of an object, that text cut    *)
(* short, that text with a brace after it, an object with a brace inside a  *)
(* name, or a string.                                                      *)

FileKinds == BlockKinds \cup {"empty", "string"}

FileText(kind, tree) ==
    IF kind = "empty" THEN <<>>
    ELSE IF kind = "string" THEN <<Quote, "b", Quote>>
    ELSE BlockText(kind, tree)

\* implement_collection_structure for what json.load returned: [w, outcome,
\* collection_map]; the items() of a value that is no dict raises after the
\* deletion
implement_collection_structure(w, j) ==
    LET d == delete_all_collections(w)
    IN IF ~j.isdict THEN [w |-> d, outcome |-> "raised", collection_map |-> <<>>]
       ELSE LET c == create_collection_structure(d, j.val, None)
            IN [w |-> c.w,
                outcome |-> IF c.raised THEN "raised" ELSE "ok",
                collection_map |-> IF c.raised THEN <<>> ELSE c.collection_map]

\* the command that deletes the collections before it opens the file
implement_collections_delete_first(w, f) ==
    LET j == json_loads(f.content)
    IN IF ~f.exists \/ j.exc # "none"
       THEN [w |-> delete_all_collections(w), outcome |-> "exit", collection_map |-> <<>>]
       ELSE implement_collection_structure(w, j)

\* implement_collections: FileNotFoundError and JSONDecodeError end the
\* command with sys.exit(1)
implement_collections(w, f) ==
    LET j == json_loads(f.content)
    IN IF ~f.exists \/ j.exc # "none"
       THEN [w |-> w, outcome |-> "exit", collection_map |-> <<>>]
       ELSE implement_collection_structure(w, j)

InitImplement ==
    /\ pc = "init"
    /\ \E m \in 0..MaxStoreColls :
        /\ dbCollections \in StoreRowSets(m)
        /\ dbCollectionItems \in StoreLinkSets(m)
        /\ \/ file = NoFile
           \/ \E tree \in UNION {DictsOfSize(StoreNames, n) : n \in 0..(MaxEntries - m - 1)},
                 kind \in FileKinds :
                file = [exists |-> TRUE, kind |-> kind, content |-> FileText(kind, tree)]
    /\ faultAt \in IF file.kind = "object" THEN 0..1 ELSE {0}
    /\ collections = <<>>
    /\ items = <<>>
    /\ structure = <<>>
    /\ outcome = "none"
    /\ reported = 0
    /\ collection_map = <<>>
    /\ before = NoSnapshot
    /\ Idle
    /\ NoTags
    /\ op = NoOp
    /\ new_keywords = <<>>
    /\ command = "none"
    /\ unclassified = <<>>
    /\ processed = <<>>
    /\ parts = NoParts
    /\ text2 = <<>>
    /\ result2 = [kind |-> "none", val |-> <<>>]

\* the implement command of main()
ImplementCollections ==
    /\ pc = "loaded"
    /\ \E r \in {implement_collections(World, file)} :
          /\ dbCollections' = r.w.db
          /\ dbCollectionItems' = r.w.links
          /\ collections' = r.w.colls
          /\ items' = r.w.items
          /\ outcome' = r.outcome
          /\ collection_map' = r.collection_map
          /\ reported' = Len(r.collection_map)
    /\ structure' = IF file.exists /\ json_loads(file.content).isdict
                    THEN json_loads(file.content).val ELSE structure
    /\ pc' = "done"
    /\ UNCHANGED <<faultAt, before, classifyVars, collection_paths, extractVars,
                   tagVars, storeOpVars, batchVars, replyVars, file>>

NextImplement == LoadLibrary \/ ImplementCollections

SpecImplement == InitImplement /\ [][NextImplement]_vars

\* the file cannot be read as structured text
Unreadable(f) == ~f.exists \/ f.kind \in {"empty", "cut", "extra"}

\* C18: when the structure file is missing or is not valid structured text,
\* the implement command ends with sys.exit(1) and the store and the mirror
\* are as load_library left them: no collection and no link deleted or
\* created; a file that holds an object is not refused.
C18_ReadBeforeMutation ==
    pc = "done" =>
        /\ Unreadable(file) => (outcome = "exit" /\ Snapshot(World) = before)
        /\ (file.exists /\ file.kind \in {"object", "bracestring"}) => outcome # "exit"

\* a file cut short was refused while the user library held a collection
\* with a paper in it, all of it still there
C18_Witness ==
    /\ pc = "done"
    /\ file.exists /\ file.kind = "cut"
    /\ outcome = "exit"
    /\ \E r \in dbCollections : r.libraryID = library_id
    /\ dbCollectionItems # {}
    /\ \E i \in DOMAIN items : items[i].collections # <<>>
    /\ Snapshot(World) = before

====
